---- MODULE Spec2Model ----
(***************************************************************************)
(* Historical market data requests of the ibapi client                     *)
(* (src/src/historical_market_data.rs).                                    *)
(*                                                                         *)
(* head_timestamp is modelled statement by statement.  The Client trait    *)
(* (check_server_version, next_request_id, send_message and the promise    *)
(* it returns), the packets' field codec and the ClientStub of the tests   *)
(* live in crate::client, outside the file; they are modelled from the     *)
(* design document.  The six stream requests and the iterators are         *)
(* modelled from their bodies in the file.                                 *)
(***************************************************************************)
EXTENDS Integers, Sequences, FiniteSets, TLC

(* ------------------------------ bounds --------------------------------- *)

\* Callers that may have a head_timestamp call in flight at the same time.
NumCalls == 2
\* Longest response packet (in tokens) the stub transport is loaded with.
MaxTokens == 3
\* Most bar messages a transport holds for one historical_data request.
MaxBars == 2

Calls == 1..NumCalls

(* --------------------------- program constants ------------------------- *)

\* server_versions::REQ_HEAD_TIMESTAMP, the minimum version of the feature.
REQ_HEAD_TIMESTAMP == 90
\* The op-code written first by encode_head_timestamp.
OutgoingReqHeadTimestamp == 12

ServerVersions == (REQ_HEAD_TIMESTAMP - 1)..(REQ_HEAD_TIMESTAMP + 1)

(* ------------------------------ results -------------------------------- *)

Ok(v) == [ok |-> TRUE, value |-> v]
Err(e) == [ok |-> FALSE, error |-> e]
IsOk(r) == r.ok
IsErr(r) == ~r.ok

(* ------------------------------ field codec ---------------------------- *)

\* add_field of an integer: decimal text.
EncodeInt(n) == ToString(n)
\* add_field of a bool: "1" or "0".
EncodeBool(b) == IF b THEN "1" ELSE "0"
\* add_field of a string: the raw text.
EncodeStr(s) == s

\* The integers a token of the model can denote.
IntRange == 0..(OutgoingReqHeadTimestamp + NumCalls)

\* next_int's parse of one token: decimal text, leading zeros allowed.
ParseInt(tok) ==
    IF \E n \in IntRange : ToString(n) = tok
    THEN Ok(CHOOSE n \in IntRange : ToString(n) = tok)
    ELSE IF tok = "00" THEN Ok(0)
    ELSE Err("MalformedField")

\* The gateway's compact timestamp tokens and the instants they denote
\* (seconds after 2023-04-05 00:00:00 UTC).
DateTimeText ==
    [tok \in {"20230405 10:00:00", "20230405 10:00:30"} |->
        IF tok = "20230405 10:00:00" THEN 36000 ELSE 36030]

\* next_date_time's parse of one token.
ParseDateTime(tok) ==
    IF tok \in DOMAIN DateTimeText
    THEN Ok(DateTimeText[tok])
    ELSE Err("MalformedField")

\* add_field of a Contract: its 13 sub-fields, in the order of IBParamsList.
EncodeContract(contract) ==
    << EncodeInt(contract.contract_id),
       EncodeStr(contract.symbol),
       EncodeStr(contract.security_type),
       EncodeStr(contract.last_trade_date_or_contract_month),
       EncodeInt(contract.strike),
       EncodeStr(contract.right),
       EncodeStr(contract.multiplier),
       EncodeStr(contract.exchange),
       EncodeStr(contract.primary_exchange),
       EncodeStr(contract.currency),
       EncodeStr(contract.local_symbol),
       EncodeStr(contract.trading_class),
       EncodeBool(contract.include_expired) >>

\* contracts::stock(symbol), as the test and the doc example build it.
Stock(symbol) ==
    [ contract_id |-> 0, symbol |-> symbol, security_type |-> "STK",
      last_trade_date_or_contract_month |-> "", strike |-> 0, right |-> "",
      multiplier |-> "", exchange |-> "SMART", primary_exchange |-> "",
      currency |-> "USD", local_symbol |-> "", trading_class |-> "",
      include_expired |-> FALSE ]

\* An expired option: every sub-field differs from the stock's where it can.
ExpiredOption ==
    [ contract_id |-> 7, symbol |-> "AAPL", security_type |-> "OPT",
      last_trade_date_or_contract_month |-> "202301", strike |-> 5,
      right |-> "C", multiplier |-> "100", exchange |-> "CBOE",
      primary_exchange |-> "CBOE", currency |-> "EUR",
      local_symbol |-> "AAPL C5", trading_class |-> "AAPL",
      include_expired |-> TRUE ]

Contracts == {Stock("MSFT"), ExpiredOption}
WhatToShow == {"trades", "bid"}

(* ------------------------------ packets -------------------------------- *)

\* ResponsePacket: the raw tokens and a forward-only read cursor (the number
\* of tokens consumed).
ResponsePacket(fields) == [fields |-> fields, cursor |-> 0]

\* The tokens a packet still holds unread.
Remaining(packet) == Len(packet.fields) - packet.cursor

\* ResponsePacket::next_int: the parse of the next token and the packet after.
next_int(packet) ==
    IF Remaining(packet) = 0
    THEN [result |-> Err("UnexpectedEndOfMessage"), packet |-> packet]
    ELSE [result |-> ParseInt(packet.fields[packet.cursor + 1]),
          packet |-> [packet EXCEPT !.cursor = @ + 1]]

\* ResponsePacket::next_date_time.
next_date_time(packet) ==
    IF Remaining(packet) = 0
    THEN [result |-> Err("UnexpectedEndOfMessage"), packet |-> packet]
    ELSE [result |-> ParseDateTime(packet.fields[packet.cursor + 1]),
          packet |-> [packet EXCEPT !.cursor = @ + 1]]

(* ---------------------- encode / decode (the file) --------------------- *)

\* Faulty variant: the what-to-show code is added before the use-RTH flag.
encode_head_timestamp_swapped(request_id, contract, what_to_show, use_rth) ==
    << EncodeInt(OutgoingReqHeadTimestamp), EncodeInt(request_id) >>
        \o EncodeContract(contract)
        \o << EncodeStr(what_to_show), EncodeBool(use_rth),
              EncodeStr("format_date") >>

\* encode_head_timestamp: the six add_field calls, in order.
encode_head_timestamp(request_id, contract, what_to_show, use_rth) ==
    << EncodeInt(OutgoingReqHeadTimestamp), EncodeInt(request_id) >>
        \o EncodeContract(contract)
        \o << EncodeBool(use_rth), EncodeStr(what_to_show),
              EncodeStr("format_date") >>

\* Faulty variant: the RequestId read first is what is returned.
decode_head_timestamp_returns_id(packet) ==
    LET r1 == next_int(packet) IN
    IF IsErr(r1.result) THEN [result |-> r1.result, packet |-> r1.packet]
    ELSE LET r2 == next_date_time(r1.packet) IN
         IF IsErr(r2.result) THEN [result |-> r2.result, packet |-> r2.packet]
         ELSE [result |-> Ok(r1.result.value), packet |-> r2.packet]

\* Faulty variant: a timestamp that cannot be read is replaced by the epoch
\* (unwrap_or_default in place of ?).
decode_head_timestamp_lenient(packet) ==
    LET r1 == next_int(packet) IN
    IF IsErr(r1.result) THEN [result |-> r1.result, packet |-> r1.packet]
    ELSE LET r2 == next_date_time(r1.packet) IN
         IF IsErr(r2.result) THEN [result |-> Ok(0), packet |-> r2.packet]
         ELSE [result |-> Ok(r2.result.value), packet |-> r2.packet]

\* decode_head_timestamp: next_int()?, next_date_time()?, Ok(head_timestamp).
\* Returns the result and the packet as the reads left it.
decode_head_timestamp(packet) ==
    LET r1 == next_int(packet) IN
    IF IsErr(r1.result) THEN [result |-> r1.result, packet |-> r1.packet]
    ELSE LET r2 == next_date_time(r1.packet) IN
         IF IsErr(r2.result) THEN [result |-> r2.result, packet |-> r2.packet]
         ELSE [result |-> Ok(r2.result.value), packet |-> r2.packet]

(* --------------------- the Client trait (crate::client) ---------------- *)

\* A registration of the Correlator: Pending, then Completed with the
\* response's tokens or Errored.
Pending == [state |-> "Pending", fields |-> << >>, error |-> ""]
Completed(fields) == [state |-> "Completed", fields |-> fields, error |-> ""]
Errored(e) == [state |-> "Errored", fields |-> << >>, error |-> e]

\* f with key k bound to v (k added when new).
Bind(f, k, v) == [x \in (DOMAIN f) \cup {k} |-> IF x = k THEN v ELSE f[x]]
\* f without key k.
Unbind(f, k) == [x \in (DOMAIN f) \ {k} |-> f[x]]

\* Client::check_server_version(version, message).
check_server_version(cl, version) ==
    IF cl.server_version >= version THEN Ok(TRUE) ELSE Err("UnsupportedFeature")

\* Client::next_request_id(): the counter's value, and the client after.
next_request_id(cl) ==
    [id |-> cl.next_request_id,
     client |-> [cl EXCEPT !.next_request_id = @ + 1]]

\* Client::send_message(request_id, packet): hands the packet to the
\* transport, which records it (ClientStub::request_packets).  When the
\* transport takes it, request_id is registered, the packet reaches the
\* gateway and the promise of its response is returned (here: the key the
\* promise waits on); when the transport fails, the error is.
send_message(cl, request_id, packet, transport_ok) ==
    LET handed == [cl EXCEPT !.request_packets = Append(@, packet)] IN
    IF transport_ok
    THEN [result |-> Ok(request_id),
          client |-> [handed EXCEPT
                        !.transmitted = @ \cup {Len(handed.request_packets)},
                        !.registrations = Bind(@, request_id, Pending)]]
    ELSE [result |-> Err("TransportError"), client |-> handed]

(* --------------------------- head_timestamp ---------------------------- *)

\* A call that has not started.
IdleCall ==
    [pc |-> "idle", steps |-> << >>, ids |-> << >>, query |-> << >>,
     promise |-> << >>, response |-> ResponsePacket(<< >>),
     result |-> Err("none")]

\* Faulty variant: the result of the check is dropped (no ? after it).
head_timestamp_check_skipped(cl) == Ok(TRUE)

\* The capability check head_timestamp makes first.
head_timestamp_check(cl) == check_server_version(cl, REQ_HEAD_TIMESTAMP)

\* Faulty variant: a failed send is tried once more.
head_timestamp_send_retry(cl, request_id, request, transport_ok) ==
    LET first == send_message(cl, request_id, request, transport_ok) IN
    IF IsErr(first.result)
    THEN send_message(first.client, request_id, request, TRUE)
    ELSE first

\* Faulty variant: every request is registered under the same key.
head_timestamp_send_fixed_key(cl, request_id, request, transport_ok) ==
    send_message(cl, 0, request, transport_ok)

\* The send of head_timestamp: the allocated id is the correlation key.
head_timestamp_send(cl, request_id, request, transport_ok) ==
    send_message(cl, request_id, request, transport_ok)

\* head_timestamp after the check passed, up to the point where it blocks in
\* promise.message(): next_request_id(), encode_head_timestamp(..)?,
\* send_message(..)?.  Returns the client and the call's record after.
head_timestamp_checked(cl, contract, what_to_show, use_rth, transport_ok) ==
    LET alloc == next_request_id(cl)
        request == encode_head_timestamp(alloc.id, contract, what_to_show, use_rth)
        sending == head_timestamp_send(alloc.client, alloc.id, request, transport_ok)
        query == [contract |-> contract, what_to_show |-> what_to_show,
                  use_rth |-> use_rth]
        started == [IdleCall EXCEPT
                      !.steps = << "check", "alloc", "encode", "send" >>,
                      !.ids = << alloc.id >>,
                      !.query = << query >>]
    IN  IF IsErr(sending.result)
        THEN [client |-> sending.client,
              call |-> [started EXCEPT !.pc = "done", !.result = sending.result]]
        ELSE [client |-> sending.client,
              call |-> [started EXCEPT !.pc = "awaiting",
                                       !.promise = << sending.result.value >>]]

\* Faulty variant: the request id is allocated before the check is made.
head_timestamp_request_alloc_first(cl, contract, what_to_show, use_rth, transport_ok) ==
    LET alloc == next_request_id(cl)
        check == head_timestamp_check(cl)
    IN  IF IsErr(check)
        THEN [client |-> alloc.client,
              call |-> [IdleCall EXCEPT !.pc = "done",
                                        !.steps = << "alloc", "check" >>,
                                        !.ids = << alloc.id >>,
                                        !.result = check]]
        ELSE head_timestamp_checked(cl, contract, what_to_show, use_rth, transport_ok)

\* head_timestamp from its start: check_server_version(..)? returns the error
\* at once; otherwise the call goes on.
head_timestamp_request(cl, contract, what_to_show, use_rth, transport_ok) ==
    LET check == head_timestamp_check(cl) IN
    IF IsErr(check)
    THEN [client |-> cl,
          call |-> [IdleCall EXCEPT !.pc = "done", !.steps = << "check" >>,
                                    !.result = check]]
    ELSE head_timestamp_checked(cl, contract, what_to_show, use_rth, transport_ok)

\* head_timestamp from promise.message()? on: the registration the promise
\* waits on has been resolved to slot; decode_head_timestamp(&mut response).
head_timestamp_response(c, slot) ==
    IF slot.state = "Errored"
    THEN [c EXCEPT !.pc = "done", !.steps = Append(@, "await"),
                   !.result = Err(slot.error)]
    ELSE LET decoded == decode_head_timestamp(ResponsePacket(slot.fields)) IN
         [c EXCEPT !.pc = "done", !.steps = @ \o << "await", "decode" >>,
                   !.response = decoded.packet,
                   !.result = decoded.result]

(* ------------------- stream requests and iterators --------------------- *)

\* histogram_data: prints its arguments and returns Err; client is a shared
\* reference (&C).  Returns the client after and the result.
histogram_data(cl, contract, use_rth, period) ==
    [client |-> cl, result |-> Err("not implemented!")]

\* historical_data.
historical_data(cl, contract, duration, bar_size, what_to_show, use_rth, keep_up_to_date) ==
    [client |-> cl, result |-> Err("not implemented!")]

\* historical_schedule.
historical_schedule(cl, contract, use_rth, period) ==
    [client |-> cl, result |-> Err("not implemented!")]

\* Faulty variant: a request id is taken before the error is returned.
historical_ticks_allocating(cl, contract, number_of_ticks, use_rth, ignore_size) ==
    [client |-> next_request_id(cl).client, result |-> Err("not implemented!")]

\* historical_ticks.
historical_ticks(cl, contract, number_of_ticks, use_rth, ignore_size) ==
    [client |-> cl, result |-> Err("not implemented!")]

\* historical_ticks_bid_ask.
historical_ticks_bid_ask(cl, contract, number_of_ticks, use_rth, ignore_size) ==
    [client |-> cl, result |-> Err("not implemented!")]

\* historical_ticks_last.
historical_ticks_last(cl, contract, number_of_ticks, use_rth, ignore_size) ==
    [client |-> cl, result |-> Err("not implemented!")]

\* HistoricalTickIterator::new(): the iterator has no fields.
HistoricalTickIterator_new == [type |-> "HistoricalTickIterator"]

\* Iterator::next of HistoricalTickIterator: None, whatever was sent to it.
HistoricalTickIterator_next(iterator) == "None"

\* The Bar elements a caller can pull out of what historical_data returned:
\* BarIterator has no Iterator implementation, and an Err holds no stream.
BarsYielded(result) == 0

\* No stream request has been made yet.
NoStreamCall == [fn |-> "none", result |-> Err("none"), bars |-> 0, yielded |-> 0]

\* The record of a stream request that returned r.
StreamCall(fn, r) == [fn |-> fn, result |-> r.result, bars |-> 0, yielded |-> 0]

(* ------------------------------ state ---------------------------------- *)

VARIABLES
    client,            \* the Client: version, id counter, sent packets, Correlator
    call,              \* per caller: the head_timestamp call it makes
    answered,          \* indexes of the sent packets the gateway has answered
    inbound,           \* messages of the gateway the dispatcher has not routed
    delivered,         \* request ids in the order the dispatcher resolved them
    unrouted,          \* inbound messages that matched no pending registration
    response_packets,  \* ClientStub: the queue of responses it is loaded with
    stream_call        \* the last call of a stream request or iterator, and its outcome

vars == << client, call, answered, inbound, delivered, unrouted, response_packets,
           stream_call >>

\* A connected client: the negotiated version, the first request id, no
\* packet handed to the transport and no registration.
NewClient(version, first_id) ==
    [server_version |-> version, next_request_id |-> first_id,
     request_packets |-> << >>, transmitted |-> {}, registrations |-> << >>]

\* The state after the client is connected (the version is negotiated then).
Init ==
    /\ \E version \in ServerVersions : client = NewClient(version, 0)
    /\ call = [c \in Calls |-> IdleCall]
    /\ answered = {}
    /\ inbound = {}
    /\ delivered = << >>
    /\ unrouted = {}
    /\ response_packets = << >>
    /\ stream_call = NoStreamCall

\* The queries of the concurrent callers: the test's and one that differs
\* from it in every argument.
Queries ==
    { [contract |-> Stock("MSFT"), what_to_show |-> "trades", use_rth |-> TRUE],
      [contract |-> ExpiredOption, what_to_show |-> "bid", use_rth |-> FALSE] }

\* Caller c calls head_timestamp and runs until it blocks or returns.
HeadTimestampCall(c) ==
    /\ call[c].pc = "idle"
    /\ \E q \in Queries, transport_ok \in BOOLEAN :
         LET r == head_timestamp_request(client, q.contract, q.what_to_show,
                                         q.use_rth, transport_ok)
         IN  /\ client' = r.client
             /\ call' = [call EXCEPT ![c] = r.call]
    /\ UNCHANGED << answered, inbound, delivered, unrouted, response_packets, stream_call >>

\* promise.message() returns to caller c: the response is decoded and the
\* call returns; the single-shot registration is retired.
HeadTimestampReturn(c) ==
    /\ call[c].pc = "awaiting"
    /\ LET key == call[c].promise[1] IN
       /\ key \in DOMAIN client.registrations
       /\ client.registrations[key].state # "Pending"
       /\ call' = [call EXCEPT ![c] =
                     head_timestamp_response(call[c], client.registrations[key])]
       /\ client' = [client EXCEPT !.registrations = Unbind(@, key)]
    /\ UNCHANGED << answered, inbound, delivered, unrouted, response_packets, stream_call >>

(* ------------------------ gateway and dispatcher ----------------------- *)

\* What the gateway may put after the RequestId of a head-timestamp
\* response: nothing, a timestamp, garbage, a timestamp and a stray token.
ReplyTails ==
    { << >>, << "20230405 10:00:00" >>, << "cc" >>,
      << "20230405 10:00:00", "cc" >> }

\* The gateway answers sent packet i, tagging the answer with the RequestId
\* it reads in the packet: a response, or an error for that request.
GatewayReply(i) ==
    /\ i \in client.transmitted
    /\ i \notin answered
    /\ answered' = answered \cup {i}
    /\ LET id_token == client.request_packets[i][2] IN
       \/ \E tail \in ReplyTails :
            inbound' = inbound \cup
                {[kind |-> "response", fields |-> << id_token >> \o tail]}
       \/ inbound' = inbound \cup {[kind |-> "error", fields |-> << id_token >>]}
    /\ UNCHANGED << client, call, delivered, unrouted, response_packets, stream_call >>

\* The dispatcher routes one inbound message to the registration of the
\* RequestId it bears; one that bears no pending RequestId is reported.
Dispatch(m) ==
    /\ m \in inbound
    /\ inbound' = inbound \ {m}
    /\ LET id == ParseInt(m.fields[1])
           routable == /\ IsOk(id)
                       /\ id.value \in DOMAIN client.registrations
                       /\ client.registrations[id.value].state = "Pending"
       IN  IF routable
           THEN /\ client' = [client EXCEPT !.registrations[id.value] =
                                IF m.kind = "error" THEN Errored("GatewayError")
                                ELSE Completed(m.fields)]
                /\ delivered' = Append(delivered, id.value)
                /\ UNCHANGED unrouted
           ELSE /\ unrouted' = unrouted \cup {m}
                /\ UNCHANGED << client, delivered >>
    /\ UNCHANGED << call, answered, response_packets, stream_call >>

Next ==
    \/ \E c \in Calls : HeadTimestampCall(c)
    \/ \E c \in Calls : HeadTimestampReturn(c)
    \/ \E i \in 1..NumCalls : GatewayReply(i)
    \/ \E m \in inbound : Dispatch(m)

Spec == Init /\ [][Next]_vars

(* ------------------ the test's harness: ClientStub --------------------- *)

\* The caller of the test: one call, on a client it holds exclusively.
TestCaller == CHOOSE c \in Calls : TRUE

\* The tokens the stub's response packets are made of: integers, garbage
\* and timestamps.
Tokens == {"0", "10", "00", "cc"} \cup DOMAIN DateTimeText

\* Every token sequence of length n.
TokenSeqs(n) == [1..n -> Tokens]

\* The response packets a ClientStub may be loaded with.
Packets == UNION {TokenSeqs(n) : n \in 0..MaxTokens}

\* Every query head_timestamp can be called with.
AllQueries == [contract : Contracts, what_to_show : WhatToShow, use_rth : BOOLEAN]

\* test_head_timestamp's set-up: a ClientStub whose response_packets holds
\* one packet, or none.
InitStub ==
    /\ \E version \in ServerVersions, first_id \in 0..NumCalls :
         client = NewClient(version, first_id)
    /\ call = [c \in Calls |-> IdleCall]
    /\ answered = {}
    /\ inbound = {}
    /\ delivered = << >>
    /\ unrouted = {}
    /\ \/ \E p \in Packets : response_packets = << p >>
       \/ response_packets = << >>
    /\ stream_call = NoStreamCall

\* The test calls head_timestamp on the stub.
StubHeadTimestampCall ==
    /\ call[TestCaller].pc = "idle"
    /\ \E q \in AllQueries, transport_ok \in BOOLEAN :
         LET r == head_timestamp_request(client, q.contract, q.what_to_show,
                                         q.use_rth, transport_ok)
         IN  /\ client' = r.client
             /\ call' = [call EXCEPT ![TestCaller] = r.call]
    /\ UNCHANGED << answered, inbound, delivered, unrouted, response_packets, stream_call >>

\* The stub resolves the promise with the packet at the front of its queue,
\* whatever RequestId the packet bears; with an empty queue the promise fails.
StubReply ==
    /\ call[TestCaller].pc = "awaiting"
    /\ LET key == call[TestCaller].promise[1] IN
       /\ key \in DOMAIN client.registrations
       /\ client.registrations[key].state = "Pending"
       /\ IF response_packets = << >>
          THEN /\ client' = [client EXCEPT !.registrations[key] =
                               Errored("NoResponse")]
               /\ UNCHANGED response_packets
          ELSE /\ client' = [client EXCEPT !.registrations[key] =
                               Completed(Head(response_packets))]
               /\ response_packets' = Tail(response_packets)
    /\ UNCHANGED << call, answered, inbound, delivered, unrouted, stream_call >>

\* The six stream requests, called with any arguments in any client state.
HistogramData ==
    /\ \E contract \in Contracts, use_rth \in BOOLEAN, period \in {"3 days", "1 W"} :
         LET r == histogram_data(client, contract, use_rth, period)
         IN  /\ client' = r.client
             /\ stream_call' = StreamCall("histogram_data", r)
    /\ UNCHANGED << call, answered, inbound, delivered, unrouted, response_packets >>

\* The transport holds bars bar messages and a completion sentinel for the
\* request; the caller pulls what the result lets it pull.
HistoricalData ==
    /\ \E contract \in Contracts, what \in WhatToShow, use_rth \in BOOLEAN,
          keep_up_to_date \in BOOLEAN, bars \in 0..MaxBars :
         LET r == historical_data(client, contract, "1 D", "1 min", what,
                                  use_rth, keep_up_to_date)
         IN  /\ client' = r.client
             /\ stream_call' = [StreamCall("historical_data", r) EXCEPT
                                  !.bars = bars,
                                  !.yielded = BarsYielded(r.result)]
    /\ UNCHANGED << call, answered, inbound, delivered, unrouted, response_packets >>

HistoricalSchedule ==
    /\ \E contract \in Contracts, use_rth \in BOOLEAN, period \in {"3 days", "1 W"} :
         LET r == historical_schedule(client, contract, use_rth, period)
         IN  /\ client' = r.client
             /\ stream_call' = StreamCall("historical_schedule", r)
    /\ UNCHANGED << call, answered, inbound, delivered, unrouted, response_packets >>

HistoricalTicks ==
    /\ \E contract \in Contracts, number_of_ticks \in 0..MaxBars,
          use_rth \in 0..1, ignore_size \in BOOLEAN :
         LET r == historical_ticks(client, contract, number_of_ticks, use_rth, ignore_size)
         IN  /\ client' = r.client
             /\ stream_call' = StreamCall("historical_ticks", r)
    /\ UNCHANGED << call, answered, inbound, delivered, unrouted, response_packets >>

HistoricalTicksBidAsk ==
    /\ \E contract \in Contracts, number_of_ticks \in 0..MaxBars,
          use_rth \in 0..1, ignore_size \in BOOLEAN :
         LET r == historical_ticks_bid_ask(client, contract, number_of_ticks, use_rth, ignore_size)
         IN  /\ client' = r.client
             /\ stream_call' = StreamCall("historical_ticks_bid_ask", r)
    /\ UNCHANGED << call, answered, inbound, delivered, unrouted, response_packets >>

HistoricalTicksLast ==
    /\ \E contract \in Contracts, number_of_ticks \in 0..MaxBars,
          use_rth \in 0..1, ignore_size \in BOOLEAN :
         LET r == historical_ticks_last(client, contract, number_of_ticks, use_rth, ignore_size)
         IN  /\ client' = r.client
             /\ stream_call' = StreamCall("historical_ticks_last", r)
    /\ UNCHANGED << call, answered, inbound, delivered, unrouted, response_packets >>

\* A HistoricalTickIterator is made and pulled once.
HistoricalTickIteratorNext ==
    /\ stream_call' =
         [fn |-> "HistoricalTickIterator::next",
          result |-> Ok(HistoricalTickIterator_next(HistoricalTickIterator_new)),
          bars |-> 0, yielded |-> 0]
    /\ UNCHANGED << client, call, answered, inbound, delivered, unrouted, response_packets >>

NextStub ==
    \/ StubHeadTimestampCall
    \/ StubReply
    \/ HeadTimestampReturn(TestCaller)

SpecStub == InitStub /\ [][NextStub]_vars

\* The stub exactly as test_head_timestamp loads it.
InitStream ==
    /\ \E version \in ServerVersions : client = NewClient(version, 0)
    /\ call = [c \in Calls |-> IdleCall]
    /\ answered = {}
    /\ inbound = {}
    /\ delivered = << >>
    /\ unrouted = {}
    /\ response_packets = << << "10", "00", "cc" >> >>
    /\ stream_call = NoStreamCall

NextStream ==
    \/ StubHeadTimestampCall
    \/ StubReply
    \/ HeadTimestampReturn(TestCaller)
    \/ HistogramData
    \/ HistoricalData
    \/ HistoricalSchedule
    \/ HistoricalTicks
    \/ HistoricalTicksBidAsk
    \/ HistoricalTicksLast
    \/ HistoricalTickIteratorNext

SpecStream == InitStream /\ [][NextStream]_vars

(* ------------------------------ properties ----------------------------- *)

\* The order of head_timestamp's steps.
StepOrder == << "check", "alloc", "encode", "send", "await", "decode" >>

IsPrefix(s, t) == Len(s) <= Len(t) /\ \A i \in 1..Len(s) : s[i] = t[i]

\* The packets handed to the transport that bear the request id of caller c.
SentBy(c) ==
    {i \in 1..Len(client.request_packets) :
        /\ call[c].ids # << >>
        /\ client.request_packets[i][2] = ToString(call[c].ids[1])}

\* The callers whose call has reached step n.
Reached(n) == {c \in Calls : Len(call[c].steps) >= n}

\* Tokens that are decimal integers, and tokens that are timestamps.
IntTokens == {"0", "10", "00"}
TimeTokens == {"20230405 10:00:00", "20230405 10:00:30"}

\* C1: a head_timestamp call made while the negotiated version is below the
\* head-timestamp minimum returns the UnsupportedFeature error, and nothing
\* is handed to the transport or transmitted for it.
C1_CapabilityGate ==
    client.server_version < 90 =>
        /\ client.request_packets = << >>
        /\ client.transmitted = {}
        /\ \A c \in Calls :
             call[c].pc # "idle" =>
                /\ call[c].pc = "done"
                /\ call[c].result = Err("UnsupportedFeature")

\* Every caller has called head_timestamp on a client whose version is too low.
C1_Witness ==
    /\ client.server_version < 90
    /\ \A c \in Calls : call[c].pc = "done"

\* C2: whenever a call decodes a response, in any interleaving of the
\* callers, the gateway and the dispatcher, the RequestId field of that
\* response is the id the call allocated.
C2_Correlator ==
    \A c \in Calls :
        (call[c].pc = "done" /\ Len(call[c].steps) = 6) =>
            /\ Len(call[c].response.fields) >= 1
            /\ call[c].response.fields[1] = ToString(call[c].ids[1])

\* Two calls have both returned a timestamp, and the response of the one that
\* allocated the larger id was delivered first.
C2_Witness ==
    \E c1, c2 \in Calls :
        /\ call[c1].pc = "done" /\ IsOk(call[c1].result)
        /\ call[c2].pc = "done" /\ IsOk(call[c2].result)
        /\ call[c1].ids[1] < call[c2].ids[1]
        /\ \E i, j \in 1..Len(delivered) :
             i < j /\ delivered[i] = call[c2].ids[1] /\ delivered[j] = call[c1].ids[1]

\* C3: a successful decode leaves no token of the response unread, and a
\* response of more than two tokens is answered with an error.
C3_ExactConsumption ==
    LET c == call[TestCaller] IN
    (c.pc = "done" /\ Len(c.steps) = 6) =>
        /\ IsOk(c.result) => Remaining(c.response) = 0
        /\ Len(c.response.fields) > 2 => IsErr(c.result)

\* C4: a call that passed the capability check has handed exactly one packet
\* to the transport, whatever it returned or is waiting for; a call that has
\* not got that far has handed none; no other packet is handed over.
C4_ExactlyOneRequest ==
    /\ \A c \in Calls :
         Cardinality(SentBy(c)) = IF Len(call[c].steps) >= 4 THEN 1 ELSE 0
    /\ Len(client.request_packets) = Cardinality(Reached(4))

\* One call returned a timestamp and another a decode error, each after
\* exactly one packet.
C4_Witness ==
    \E c1, c2 \in Calls :
        /\ call[c1].pc = "done" /\ IsOk(call[c1].result)
        /\ call[c2].pc = "done" /\ call[c2].result = Err("MalformedField")
        /\ Cardinality(SentBy(c1)) = 1 /\ Cardinality(SentBy(c2)) = 1

\* C5: the packet head_timestamp sends holds exactly 18 fields: the op-code
\* "12", the request id, the contract's 13 fields in their canonical order,
\* the use-RTH flag, the what-to-show code and the directive "format_date".
C5_RequestFieldOrder ==
    LET c == call[TestCaller] IN
    Len(c.steps) >= 4 =>
        /\ Len(client.request_packets) = 1
        /\ LET p == client.request_packets[1]
               q == c.query[1]
               k == q.contract
           IN  /\ Len(p) = 18
               /\ p[1] = "12"
               /\ p[2] = ToString(c.ids[1])
               /\ p[3] = ToString(k.contract_id)
               /\ p[4] = k.symbol
               /\ p[5] = k.security_type
               /\ p[6] = k.last_trade_date_or_contract_month
               /\ p[7] = ToString(k.strike)
               /\ p[8] = k.right
               /\ p[9] = k.multiplier
               /\ p[10] = k.exchange
               /\ p[11] = k.primary_exchange
               /\ p[12] = k.currency
               /\ p[13] = k.local_symbol
               /\ p[14] = k.trading_class
               /\ p[15] = (IF k.include_expired THEN "1" ELSE "0")
               /\ p[16] = (IF q.use_rth THEN "1" ELSE "0")
               /\ p[17] = q.what_to_show
               /\ p[18] = "format_date"

\* The packet of a request for the bids of the expired option, regular
\* trading hours only, under a request id other than 0.
C5_Witness ==
    LET c == call[TestCaller] IN
    /\ Len(c.steps) >= 4
    /\ c.ids[1] > 0
    /\ c.query[1] = [contract |-> ExpiredOption, what_to_show |-> "bid",
                     use_rth |-> TRUE]
    /\ Len(client.request_packets) = 1

\* C6: a response of two tokens, an integer RequestId and a valid timestamp,
\* decodes to the instant the second token denotes, whatever the RequestId;
\* both tokens are consumed.
C6_DecodeDiscardsRequestId ==
    LET c == call[TestCaller]
        f == c.response.fields
    IN  (/\ c.pc = "done" /\ Len(c.steps) = 6
         /\ Len(f) = 2 /\ f[1] \in IntTokens /\ f[2] \in TimeTokens) =>
            /\ c.result = Ok(IF f[2] = "20230405 10:00:00" THEN 36000 ELSE 36030)
            /\ c.response.cursor = 2

\* The response ["10", "20230405 10:00:30"] has been decoded.
C6_Witness ==
    LET c == call[TestCaller] IN
    /\ c.pc = "done"
    /\ c.response.fields = << "10", "20230405 10:00:30" >>
    /\ c.result = Ok(36030)

\* C7: a call whose send failed, whose promise failed, or whose response is
\* short or holds a token that does not parse, returns the error of the step
\* that failed; a call returns a timestamp only when the send and the
\* promise succeeded and the response starts with an integer and a timestamp.
C7_FailureIsError ==
    LET c == call[TestCaller]
        f == c.response.fields
    IN  c.pc = "done" =>
            /\ Len(c.steps) = 4 => c.result = Err("TransportError")
            /\ Len(c.steps) = 5 => c.result = Err("NoResponse")
            /\ Len(c.steps) = 6 =>
                 /\ Len(f) = 0 => c.result = Err("UnexpectedEndOfMessage")
                 /\ (Len(f) >= 1 /\ f[1] \notin IntTokens) =>
                        c.result = Err("MalformedField")
                 /\ (Len(f) = 1 /\ f[1] \in IntTokens) =>
                        c.result = Err("UnexpectedEndOfMessage")
                 /\ (Len(f) >= 2 /\ f[1] \in IntTokens /\ f[2] \notin TimeTokens) =>
                        c.result = Err("MalformedField")
            /\ IsOk(c.result) =>
                 /\ Len(c.steps) = 6
                 /\ Len(f) >= 2 /\ f[1] \in IntTokens /\ f[2] \in TimeTokens

\* The stub handed over a response whose RequestId is garbage, and the call
\* returned MalformedField.
C7_Witness ==
    LET c == call[TestCaller] IN
    /\ c.pc = "done"
    /\ c.response.fields = << "cc", "20230405 10:00:00" >>
    /\ c.result = Err("MalformedField")

\* C8: a historical_data request for which the transport holds N bar
\* messages and the completion sentinel gives a stream that yields N bars.
C8_StreamYieldsEveryBar ==
    stream_call.fn = "historical_data" =>
        /\ IsOk(stream_call.result)
        /\ stream_call.yielded = stream_call.bars

\* C9: the steps of a call are a prefix of check, alloc, encode, send, await,
\* decode, and the call stops at the first step that fails; the id counter
\* has advanced once per call that passed the check; the ids differ; the
\* key the promise waits on is the allocated id, and it is the second field
\* of the one packet the call sent.
C9_StepOrder ==
    /\ \A c \in Calls :
         /\ IsPrefix(call[c].steps, StepOrder)
         /\ Len(call[c].ids) = (IF Len(call[c].steps) >= 2 THEN 1 ELSE 0)
         /\ call[c].pc = "idle" <=> call[c].steps = << >>
         /\ call[c].pc = "awaiting" => Len(call[c].steps) = 4
         /\ Len(call[c].steps) \in {0, 1, 4, 5, 6}
         /\ Len(call[c].steps) = 1 <=> call[c].result = Err("UnsupportedFeature")
         /\ (call[c].pc = "done" /\ Len(call[c].steps) = 4) <=>
                call[c].result = Err("TransportError")
         /\ Len(call[c].steps) = 5 <=> call[c].result = Err("GatewayError")
         /\ call[c].promise # << >> =>
                /\ call[c].promise[1] = call[c].ids[1]
                /\ \E i \in SentBy(c) :
                     client.request_packets[i][2] = ToString(call[c].promise[1])
    /\ client.next_request_id = Cardinality(Reached(2))
    /\ \A c1, c2 \in Reached(2) : c1 # c2 => call[c1].ids[1] # call[c2].ids[1]

\* A call has gone through all six steps and returned a timestamp.
C9_Witness ==
    \E c \in Calls :
        /\ call[c].steps = StepOrder
        /\ IsOk(call[c].result)
        /\ call[c].ids[1] > 0

\* The six stream requests.
StreamRequests ==
    {"histogram_data", "historical_data", "historical_schedule",
     "historical_ticks", "historical_ticks_bid_ask", "historical_ticks_last"}

====
